---- MODULE Spec2Model ----
(***************************************************************************)
(* A model of src/blockchain.py: the Blockchain class (ledger, proof of    *)
(* work, chain validation, longest-chain consensus) and the handlers of    *)
(* FrontEndFlaskApp that drive it.                                         *)
(*                                                                         *)
(* Encoding of Python values                                               *)
(*   list            a sequence                                            *)
(*   dict (block)    a record with the block's five keys                   *)
(*   previous_hash   a tuple: PyNone = <<-1>>, the int k = <<k>>, the      *)
(*                   string "" = <<>>, a hexdigest = the 5-tuple of the    *)
(*                   hashed block's fields in sorted key order             *)
(*   an exception    a result record whose field raised names it           *)
(*                                                                         *)
(* SHA-256 of a block is modelled as collision free: the digest is the     *)
(* canonical serialisation itself.  SHA-256 of a proof guess is modelled   *)
(* by a small mixing function over the decimal digits of the guess, and    *)
(* the four leading zero hex characters by four leading zero bits.         *)
(***************************************************************************)
EXTENDS Integers, Sequences, FiniteSets, TLC

\* ------------------------------------------------------------------ bounds
NumNodes == 2          \* nodes running this program
MaxChain == 2          \* blocks a node seals locally
MaxHeld == 2           \* submitted transactions a node holds, pool and chain
MaxTime == 0           \* time() returns a value in 0..MaxTime
MaxProof == 40         \* candidates a proof search tries
MaxPeerChain == 4      \* blocks in the chain of an external peer
MaxMines == 2          \* GET /mine requests in flight together
MaxLastProof == 120    \* a proof search starts from a last_proof in 0..MaxLastProof

\* ------------------------------------------------ constants of the program
GenesisProof == 100
GenesisPreviousHash == 1
ZeroPrefix == 4
HttpOk == 200
RewardAmount == 1

\* the stand-in for hashlib.sha256 on proof guesses
DigestBits == 6
DigestMul == 31
DigestAdd == 1
DigestSeed == 5

VARIABLES
    chain,                 \* chain[n]: Blockchain.chain of node n
    current_transactions,  \* current_transactions[n]: the pending pool
    nodes,                 \* nodes[n]: Blockchain.nodes, the peer netlocs
    lastCall,              \* the last call: operation, node, result
    answers,               \* what the peers answered in the last resolve
    submitted,             \* submitted[n]: the new_transaction calls since the last seal
    replaced,              \* replaced[n]: resolve_conflicts has replaced the chain
    round,                 \* chains when mining last happened, and who resolved since
    requests,              \* requests[t]: position and locals of the request thread t
    pool_list              \* which list object current_transactions of Self is bound to

vars == <<chain, current_transactions, nodes, lastCall, answers, submitted,
          replaced, round, requests, pool_list>>

Nodes == 1..NumNodes
Self == 1
Times == 0..MaxTime

\* the values time() may return once the chain ch exists: the clock does not
\* run backwards past the newest block
TimesAfter(ch) == {t \in Times : t >= ch[Len(ch)].timestamp}

\* ------------------------------------------------------------ Python values
PyNone == <<-1>>
PyInt(k) == <<k>>
EmptyStr == <<>>
JunkStr == <<10, 11>>

\* `x or y`: None, 0 and "" are false
Truthy(v) == v \notin {PyNone, PyInt(0), EmptyStr}

Return(v) == [raised |-> "", value |-> v]
Raise(e) == [raised |-> e, value |-> FALSE]

Last(s) == s[Len(s)]

\* uuid4 of node n, as a string that is never "0"
node_identifier(n) == ToString(n)

\* ------------------------------------------------------------------ Hasher
\* json.dumps(block, sort_keys=True): index, previous_hash, proof,
\* timestamp, transactions
hash(block) ==
    <<block.index, block.previous_hash, block.proof, block.timestamp,
      block.transactions>>

\* ------------------------------------------------------------- ProofEngine
RECURSIVE Digits(_)
\* str(n) for n >= 0, as the sequence of its decimal digits
Digits(n) == IF n < 10 THEN <<n>> ELSE Append(Digits(n \div 10), n % 10)

\* f"{last_proof}{proof}"
Guess(last_proof, proof) == Digits(last_proof) \o Digits(proof)

RECURSIVE Mix(_, _, _)
Mix(s, i, h) ==
    IF i > Len(s) THEN h
    ELSE Mix(s, i + 1, (h * DigestMul + s[i] + DigestAdd) % (2 ^ DigestBits))

Sha256(s) == Mix(s, 1, DigestSeed)

\* guess_hash[:4] == "0000"
LeadingZeros(h) == h \div (2 ^ (DigestBits - ZeroPrefix)) = 0

valid_proof(last_proof, proof) == LeadingZeros(Sha256(Guess(last_proof, proof)))

NoProof == -1

\* the slip of stepping over every other candidate
SkipCandidate(proof) == proof + 2

\* proof += 1
NextCandidate(proof) == proof + 1

RECURSIVE ProofSearch(_, _)
\* the while loop of proof_of_work; NoProof: no return within MaxProof tries
ProofSearch(last_proof, proof) ==
    IF valid_proof(last_proof, proof) THEN proof
    ELSE IF proof >= MaxProof THEN NoProof
    ELSE ProofSearch(last_proof, NextCandidate(proof))

proof_of_work(last_proof) == ProofSearch(last_proof, 0)

\* ------------------------------------------------------------------ Ledger
\* the slip of numbering the blocks from zero
BlockIndexFromZero(ch) == Len(ch)

\* 'index': len(self.chain) + 1
BlockIndex(ch) == Len(ch) + 1

\* previous_hash or self.hash(self.chain[-1])
PreviousHashOf(ch, previous_hash) ==
    IF Truthy(previous_hash) THEN previous_hash ELSE hash(Last(ch))

\* 'transactions': self.current_transactions
BlockTransactions(pool) == pool

\* self.current_transactions = []
PoolAfterSeal(pool) == <<>>

\* new_block(proof, previous_hash) at time now, on chain ch and pool
new_block(ch, pool, proof, previous_hash, now) ==
    LET block == [index |-> BlockIndex(ch),
                  timestamp |-> now,
                  transactions |-> BlockTransactions(pool),
                  proof |-> proof,
                  previous_hash |-> PreviousHashOf(ch, previous_hash)]
    IN  [chain |-> Append(ch, block),
         current_transactions |-> PoolAfterSeal(pool),
         block |-> block]

Transaction(sender, recipient, amount) ==
    [sender |-> sender, recipient |-> recipient, amount |-> amount]

\* the slip of inserting at the front of the pool
PoolPrepend(pool, tx) == <<tx>> \o pool

\* self.current_transactions.append({...})
PoolAfterSubmit(pool, tx) == Append(pool, tx)

\* the slip of returning the last block's own index
LastIndex(ch) == Last(ch).index

\* return self.last_block['index'] + 1
NextIndex(ch) == Last(ch).index + 1

new_transaction(ch, pool, sender, recipient, amount) ==
    [current_transactions |->
         PoolAfterSubmit(pool, Transaction(sender, recipient, amount)),
     ret |-> NextIndex(ch)]

\* the slip of sealing the genesis block with proof 0
GenesisZeroProof(now) ==
    new_block(<<>>, <<>>, 0, PyInt(GenesisPreviousHash), now).chain

\* Blockchain.__init__ at time now
Genesis(now) ==
    new_block(<<>>, <<>>, GenesisProof, PyInt(GenesisPreviousHash), now).chain

\* ---------------------------------------------------------- ChainValidator
\* `current_index := 1 < len(chain)` binds the comparison's value, True or
\* False, which indexes as 1 or 0
WalrusIndex(ch) == IF 1 < Len(ch) THEN 1 ELSE 0

\* valid_chain(chain).  Line 33 fails on an empty list.  The loop test binds
\* current_index to the comparison: with one block the loop is left at once
\* (line 44).  Otherwise line 35 reads chain[current_index] and line 36
\* evaluates block['previous_hash'] and then the name self_hash, which
\* nothing in the module binds: the call raises there, and lines 37-43 are
\* never reached.
valid_chain(ch) ==
    IF Len(ch) = 0 THEN Raise("IndexError")
    ELSE IF WalrusIndex(ch) = 0 THEN Return(TRUE)
    ELSE Raise("NameError")

\* ------------------------------------------------------- ConsensusResolver
NoChain == <<>>
Unreachable == 0

\* a peer's answer to GET /chain; status Unreachable: requests.get raises
Response(status, length, ch) == [status |-> status, length |-> length, chain |-> ch]

\* full_chain of a node whose chain is ch
full_chain(ch) == Response(HttpOk, Len(ch), ch)

\* the slip of comparing with >=
LengthAtLeast(length, max_length) == length >= max_length

\* length > max_length
LengthExceeds(length, max_length) == length > max_length

\* if response.status_code == 200
StatusOk(status) == status = HttpOk

RECURSIVE resolve_loop(_, _, _, _, _)
\* the for loop of resolve_conflicts from the i-th peer of order on
resolve_loop(order, resp, i, max_length, new_chain) ==
    IF i > Len(order)
    THEN [raised |-> "", max_length |-> max_length, new_chain |-> new_chain]
    ELSE LET r == resp[order[i]]
         IN  IF r.status = Unreachable
             THEN [raised |-> "ConnectionError", max_length |-> max_length,
                   new_chain |-> new_chain]
             ELSE IF ~StatusOk(r.status)
             THEN resolve_loop(order, resp, i + 1, max_length, new_chain)
             ELSE IF ~LengthExceeds(r.length, max_length)
             THEN resolve_loop(order, resp, i + 1, max_length, new_chain)
             ELSE LET v == valid_chain(r.chain)
                  IN  IF v.raised # ""
                      THEN [raised |-> v.raised, max_length |-> max_length,
                            new_chain |-> new_chain]
                      ELSE IF v.value
                      THEN resolve_loop(order, resp, i + 1, r.length, r.chain)
                      ELSE resolve_loop(order, resp, i + 1, max_length, new_chain)

\* the slip of replacing the chain and still returning False
resolve_unreported(ch, order, resp) ==
    LET r == resolve_loop(order, resp, 1, Len(ch), NoChain)
    IN  IF r.raised # "" THEN [raised |-> r.raised, value |-> FALSE, chain |-> ch]
        ELSE IF Len(r.new_chain) > 0
        THEN [raised |-> "", value |-> FALSE, chain |-> r.new_chain]
        ELSE [raised |-> "", value |-> FALSE, chain |-> ch]

\* resolve_conflicts on local chain ch: the result and the chain afterwards
resolve_conflicts(ch, order, resp) ==
    LET r == resolve_loop(order, resp, 1, Len(ch), NoChain)
    IN  IF r.raised # "" THEN [raised |-> r.raised, value |-> FALSE, chain |-> ch]
        ELSE IF Len(r.new_chain) > 0
        THEN [raised |-> "", value |-> TRUE, chain |-> r.new_chain]
        ELSE [raised |-> "", value |-> FALSE, chain |-> ch]

\* ------------------------------------------------------------ PeerRegistry
Address(scheme, rest) == [scheme |-> scheme, rest |-> rest]

\* urlparse(address).netloc: empty when the address has no scheme
Netloc(address) == IF address.scheme = "" THEN "" ELSE address.rest

\* register_node for every address of the request
register_nodes(known, addresses) == known \cup {Netloc(a) : a \in addresses}

\* ---------------------------------------------------------------- inputs
\* bodies of POST /transactions/new
TxInputs == {Transaction("A", "B", 10), Transaction("B", "A", 5)}

\* arguments of new_block when it is called directly
SealProofs == {0}
PreviousHashArgs == {PyNone, EmptyStr, PyInt(0), JunkStr}

\* addresses posted to /nodes/register: two external hosts
ExternalPeers == {"p1", "p2"}
ExternalAddresses == {Address("http", p) : p \in ExternalPeers}
OneAddress == {Address("http", "p1")}

NodePeers == {node_identifier(n) : n \in Nodes}
NodeOf(p) == CHOOSE n \in Nodes : node_identifier(n) = p

RECURSIVE PeerMined(_)
\* the chain of an external host that mined k - 1 blocks on its genesis
PeerMined(k) ==
    IF k = 1 THEN Genesis(0)
    ELSE LET ch == PeerMined(k - 1)
             pool == new_transaction(ch, <<>>, "0", "p", RewardAmount)
                         .current_transactions
         IN  new_block(ch, pool, proof_of_work(Last(ch).proof),
                       hash(Last(ch)), 0).chain

\* ch with the proof, or the previous_hash, of block i changed
WithProof(ch, i, proof) == [ch EXCEPT ![i].proof = proof]
WithPreviousHash(ch, i, h) == [ch EXCEPT ![i].previous_hash = h]

\* a single block that claims a position it does not have
MisnumberedChain == <<[Genesis(0)[1] EXCEPT !.index = MaxPeerChain + 1]>>

LongLength == MaxPeerChain + 1

\* what an external host may answer
ExternalResponses ==
    {full_chain(PeerMined(k)) : k \in 1..MaxPeerChain}
    \cup {full_chain(WithPreviousHash(PeerMined(MaxPeerChain), MaxPeerChain, JunkStr)),
          full_chain(WithProof(PeerMined(MaxPeerChain), 2, 0)),
          Response(HttpOk, LongLength, PeerMined(1)),
          Response(HttpOk, LongLength, MisnumberedChain),
          Response(HttpOk, LongLength, <<>>),
          Response(500, 0, <<>>),
          Response(Unreachable, 0, <<>>)}

\* what GET http://{p}/chain may give
FetchOutcomes(p) ==
    IF p \in NodePeers THEN {full_chain(chain[NodeOf(p)])}
    ELSE IF p \in ExternalPeers THEN ExternalResponses
    ELSE {Response(Unreachable, 0, <<>>)}

\* the orders in which a for loop may visit the set S
Orders(S) ==
    {o \in [1..Cardinality(S) -> S] : \A i, j \in DOMAIN o : o[i] = o[j] => i = j}

\* the answers the peers in S may give during one resolve
Answers(S) ==
    {f \in [S -> UNION {FetchOutcomes(p) : p \in S}] :
        \A p \in S : f[p] \in FetchOutcomes(p)}

\* ------------------------------------------------------------- the state
Call(op, n, raised, retInt, retBool) ==
    [op |-> op, node |-> n, raised |-> raised, retInt |-> retInt,
     retBool |-> retBool]

NoAnswers == <<>>
NoRequests == <<>>

\* the answers in the order the loop met their peers
Observed(order, resp) == [i \in DOMAIN order |-> resp[order[i]]]

\* every node constructed, node n at time times[n]
Constructed(times) ==
    /\ chain = [n \in Nodes |-> Genesis(times[n])]
    /\ current_transactions = [n \in Nodes |-> <<>>]
    /\ nodes = [n \in Nodes |-> {}]
    /\ lastCall = Call("init", Self, "", 0, FALSE)
    /\ answers = NoAnswers
    /\ submitted = [n \in Nodes |-> <<>>]
    /\ replaced = [n \in Nodes |-> FALSE]
    /\ round = [start |-> chain, done |-> {}]

InitWith(times) ==
    /\ Constructed(times)
    /\ requests = NoRequests
    /\ pool_list = 0

\* every node constructed; only Self will act, at any time of construction
Init == \E t \in Times : InitWith([n \in Nodes |-> IF n = Self THEN t ELSE 0])

\* every node constructed at its own time
InitNet == \E times \in [Nodes -> Times] : InitWith(times)

RECURSIVE SubmittedIn(_)
\* the transactions of the chain ch that a client submitted
SubmittedIn(ch) ==
    IF Len(ch) = 0 THEN 0
    ELSE SubmittedIn(SubSeq(ch, 1, Len(ch) - 1))
         + Cardinality({i \in DOMAIN Last(ch).transactions :
                           Last(ch).transactions[i] \in TxInputs})

Held(n) == Len(current_transactions[n]) + SubmittedIn(chain[n])

\* ----------------------------------------------------------- the operations
\* Blockchain.new_transaction
SubmitStep(n) ==
    \E tx \in TxInputs :
        /\ Held(n) < MaxHeld
        /\ LET r == new_transaction(chain[n], current_transactions[n],
                                    tx.sender, tx.recipient, tx.amount)
           IN  /\ current_transactions' =
                      [current_transactions EXCEPT ![n] = r.current_transactions]
               /\ submitted' =
                      [submitted EXCEPT ![n] = Append(@, [tx |-> tx, ret |-> r.ret])]
               /\ lastCall' = Call("new_transaction", n, "", r.ret, FALSE)
        /\ UNCHANGED <<chain, nodes, replaced>>

\* Blockchain.new_block called with a proof and a previous_hash argument
SealStep(n) ==
    \E proof \in SealProofs, previous_hash \in PreviousHashArgs,
       now \in TimesAfter(chain[n]) :
        /\ Len(chain[n]) < MaxChain
        /\ LET r == new_block(chain[n], current_transactions[n], proof,
                              previous_hash, now)
           IN  /\ chain' = [chain EXCEPT ![n] = r.chain]
               /\ current_transactions' =
                      [current_transactions EXCEPT ![n] = r.current_transactions]
               /\ lastCall' = Call("new_block", n, "", r.block.index, FALSE)
        /\ submitted' = [submitted EXCEPT ![n] = <<>>]
        /\ UNCHANGED <<nodes, replaced>>

\* the reward transaction of mine on node n
Reward(n) == Transaction("0", node_identifier(n), RewardAmount)

\* the handler of GET /mine
MineStep(n) ==
    \E now \in TimesAfter(chain[n]) :
        /\ Len(chain[n]) < MaxChain
        /\ LET last_block == Last(chain[n])
               last_proof == last_block.proof
               proof == proof_of_work(last_proof)
               t == new_transaction(chain[n], current_transactions[n], "0",
                                    node_identifier(n), RewardAmount)
               previous_hash == hash(last_block)
               r == new_block(chain[n], t.current_transactions, proof,
                              previous_hash, now)
           IN  /\ proof # NoProof
               /\ chain' = [chain EXCEPT ![n] = r.chain]
               /\ current_transactions' =
                      [current_transactions EXCEPT ![n] = r.current_transactions]
               /\ lastCall' = Call("mine", n, "", r.block.index, FALSE)
        /\ submitted' = [submitted EXCEPT ![n] = <<>>]
        /\ UNCHANGED <<nodes, replaced>>

\* the handler of POST /nodes/register with a list of addresses
RegisterStep(n, addresses) ==
    \E posted \in SUBSET addresses :
        /\ nodes' = [nodes EXCEPT ![n] = register_nodes(@, posted)]
        /\ lastCall' = Call("register_nodes", n, "", Cardinality(nodes'[n]), FALSE)
        /\ UNCHANGED <<chain, current_transactions, submitted, replaced>>

\* Blockchain.resolve_conflicts, the peers visited in order and answering resp
ResolveStep(n, order, resp) ==
    LET r == resolve_conflicts(chain[n], order, resp)
    IN  /\ chain' = [chain EXCEPT ![n] = r.chain]
        /\ replaced' = [replaced EXCEPT ![n] = @ \/ r.value]
        /\ lastCall' = Call("resolve_conflicts", n, r.raised, 0, r.value)
        /\ UNCHANGED <<current_transactions, nodes, submitted>>

\* --------------------------------------------------- one node, any operation
\* no request is interleaved with another: each call runs to its end
threads == <<requests, pool_list>>
calls == <<round, requests, pool_list>>

NewTransaction(n) == SubmitStep(n) /\ answers' = NoAnswers /\ UNCHANGED calls

NewBlock(n) == SealStep(n) /\ answers' = NoAnswers /\ UNCHANGED calls

Mine(n) == MineStep(n) /\ answers' = NoAnswers /\ UNCHANGED calls

RegisterNodes(n) ==
    RegisterStep(n, OneAddress) /\ answers' = NoAnswers /\ UNCHANGED calls

Resolve(n) ==
    /\ \E order \in Orders(nodes[n]), resp \in Answers(nodes[n]) :
           ResolveStep(n, order, resp)
    /\ answers' = NoAnswers
    /\ UNCHANGED calls

Next ==
    \/ NewTransaction(Self)
    \/ NewBlock(Self)
    \/ Mine(Self)
    \/ RegisterNodes(Self)
    \/ Resolve(Self)

Spec == Init /\ [][Next]_vars

\* ------------------------------------- one node and its two external peers
RegisterPeers(n) ==
    RegisterStep(n, ExternalAddresses) /\ answers' = NoAnswers /\ UNCHANGED calls

ResolveObserved(n) ==
    /\ \E order \in Orders(nodes[n]), resp \in Answers(nodes[n]) :
           /\ ResolveStep(n, order, resp)
           /\ answers' = Observed(order, resp)
    /\ UNCHANGED calls

NextResolve ==
    \/ Mine(Self)
    \/ RegisterPeers(Self)
    \/ ResolveObserved(Self)

SpecResolve == Init /\ [][NextResolve]_vars

\* ---------------------------------------------- a network of honest nodes
\* every node has registered exactly the other nodes
FullMesh == \A n \in Nodes : nodes[n] = NodePeers \ {node_identifier(n)}

\* the addresses of the other nodes, with and without the scheme
NetAddresses(n) ==
    {Address(scheme, node_identifier(m)) :
        scheme \in {"http", ""}, m \in Nodes \ {n}}

MineNet(n) ==
    /\ MineStep(n)
    /\ answers' = NoAnswers
    /\ round' = [start |-> chain', done |-> {}]
    /\ UNCHANGED threads

RegisterNet(n) ==
    RegisterStep(n, NetAddresses(n)) /\ answers' = NoAnswers /\ UNCHANGED calls

ResolveNet(n) ==
    /\ \E order \in Orders(nodes[n]), resp \in Answers(nodes[n]) :
           ResolveStep(n, order, resp)
    /\ answers' = NoAnswers
    /\ round' = [round EXCEPT !.done = IF FullMesh THEN @ \cup {n} ELSE @]
    /\ UNCHANGED threads

NextNet == \E n \in Nodes : MineNet(n) \/ RegisterNet(n) \/ ResolveNet(n)

SpecNet == InitNet /\ [][NextNet]_vars

\* ---------------------------------------- requests interleaved on one node
\* Flask's development server (app.run, line 224) serves every request in a
\* thread of its own and the program takes no lock, so the statements of the
\* handlers running on Self interleave.  A step is one statement that reads
\* or writes self.chain or self.current_transactions, with the local
\* computation that follows it.
MineThreads == 1..MaxMines
SubmitThreads == {MaxMines + 1}
ResolveThread == MaxMines + 2
Threads == MineThreads \cup SubmitThreads \cup {ResolveThread}

\* the body of the POST /transactions/new served by thread t
TxOf(t) == Transaction("A", "B", t)

NoBlock == <<>>
NoList == -1

\* a request at statement pc whose locals are not bound yet; a local that
\* holds a block holds it as a sequence of one block
Request(pc) ==
    [pc |-> pc, last_block |-> NoBlock, last_proof |-> NoProof,
     proof |-> NoProof, block |-> NoBlock, list |-> NoList,
     new_chain |-> NoChain]

FirstStatement(t) ==
    IF t \in MineThreads THEN "last_block"
    ELSE IF t \in SubmitThreads THEN "new_transaction"
    ELSE "fetch"

\* the slip of rewarding the miner before the proof is searched
MineRewardFirst(pc) ==
    CASE pc = "last_block" -> "new_transaction"
      [] pc = "new_transaction" -> "proof_of_work"
      [] pc = "proof_of_work" -> "new_block"
      [] pc = "new_block" -> "clear"
      [] pc = "clear" -> "append"
      [] OTHER -> "done"

\* the statements of mine and of the new_block it calls, in program order
MineNext(pc) ==
    CASE pc = "last_block" -> "proof_of_work"
      [] pc = "proof_of_work" -> "new_transaction"
      [] pc = "new_transaction" -> "new_block"
      [] pc = "new_block" -> "clear"
      [] pc = "clear" -> "append"
      [] OTHER -> "done"

\* list.append(tx) on the list object the pool is bound to: the block of a
\* new_block call that has read self.current_transactions and has not yet
\* rebound it holds the same object and shows the new element
Shared(reqs, tx) ==
    [t \in DOMAIN reqs |->
        IF reqs[t].block # NoBlock /\ reqs[t].list = pool_list
        THEN [reqs[t] EXCEPT
                  !.block = <<[@[1] EXCEPT !.transactions = Append(@, tx)]>>]
        ELSE reqs[t]]

\* Self has been constructed and the requests have arrived; none has run a
\* statement yet
InitThreads ==
    \E now \in Times :
        /\ Constructed([n \in Nodes |-> IF n = Self THEN now ELSE 0])
        /\ requests = [t \in Threads |-> Request(FirstStatement(t))]
        /\ pool_list = 0

\* POST /nodes/register with http://p1, which no other request is affected
\* by before resolve_conflicts reads self.nodes
RegisterPeer ==
    /\ nodes[Self] = {}
    /\ nodes' = [nodes EXCEPT ![Self] = register_nodes(@, OneAddress)]
    /\ UNCHANGED <<chain, current_transactions, lastCall, answers, submitted,
                   replaced, round, requests, pool_list>>

aside == <<nodes, lastCall, answers, submitted, round>>

\* mine, lines 172-173; the mine requests are numbered in the order in
\* which they start
MineLastBlock(t) ==
    /\ requests[t].pc = "last_block"
    /\ \A u \in MineThreads : u < t => requests[u].pc # "last_block"
    /\ requests' = [requests EXCEPT ![t].last_block = <<Last(chain[Self])>>,
                                    ![t].last_proof = Last(chain[Self]).proof,
                                    ![t].pc = MineNext(@)]
    /\ UNCHANGED <<chain, current_transactions, pool_list, replaced, aside>>

\* mine, line 174: the search reads nothing but its argument
MineProofOfWork(t) ==
    /\ requests[t].pc = "proof_of_work"
    /\ LET proof == proof_of_work(requests[t].last_proof)
       IN  /\ proof # NoProof
           /\ requests' = [requests EXCEPT ![t].proof = proof,
                                           ![t].pc = MineNext(@)]
    /\ UNCHANGED <<chain, current_transactions, pool_list, replaced, aside>>

\* mine, lines 176-180
MineNewTransaction(t) ==
    /\ requests[t].pc = "new_transaction"
    /\ current_transactions' =
           [current_transactions EXCEPT ![Self] = PoolAfterSubmit(@, Reward(Self))]
    /\ requests' = [Shared(requests, Reward(Self)) EXCEPT ![t].pc = MineNext(@)]
    /\ UNCHANGED <<chain, pool_list, replaced, aside>>

\* the requests in flight together are served within one tick of the
\* clock: time() returns what it returned for the newest block
TimesNow(ch) == {Last(ch).timestamp}

\* mine, line 181, and new_block, lines 76-82: the dict is built from the
\* chain and the pool as they are now
MineNewBlock(t) ==
    /\ requests[t].pc = "new_block"
    /\ \E now \in TimesNow(chain[Self]) :
           LET previous_hash == hash(requests[t].last_block[1])
               r == new_block(chain[Self], current_transactions[Self],
                              requests[t].proof, previous_hash, now)
           IN  requests' = [requests EXCEPT ![t].block = <<r.block>>,
                                            ![t].list = pool_list,
                                            ![t].pc = MineNext(@)]
    /\ UNCHANGED <<chain, current_transactions, pool_list, replaced, aside>>

\* new_block, line 83: the pool is bound to a new list object
MineClear(t) ==
    /\ requests[t].pc = "clear"
    /\ current_transactions' =
           [current_transactions EXCEPT ![Self] = PoolAfterSeal(@)]
    /\ pool_list' = pool_list + 1
    /\ requests' = [requests EXCEPT ![t].pc = MineNext(@)]
    /\ UNCHANGED <<chain, replaced, aside>>

\* new_block, lines 84-85, and the response of mine
MineAppend(t) ==
    /\ requests[t].pc = "append"
    /\ chain' = [chain EXCEPT ![Self] = Append(@, requests[t].block[1])]
    /\ requests' = [requests EXCEPT ![t] = Request(MineNext("append"))]
    /\ UNCHANGED <<current_transactions, pool_list, replaced, aside>>

\* new_transaction, lines 94-99, and the response of the handler: line 99
\* only reads, and what it reads goes to the client
SubmitAppend(t) ==
    /\ requests[t].pc = "new_transaction"
    /\ current_transactions' =
           [current_transactions EXCEPT ![Self] = PoolAfterSubmit(@, TxOf(t))]
    /\ requests' = [Shared(requests, TxOf(t)) EXCEPT ![t] = Request("done")]
    /\ UNCHANGED <<chain, pool_list, replaced, aside>>

\* resolve_conflicts, lines 50-63: len(self.chain) is read once, then the
\* peers are asked
ResolveFetch(t) ==
    /\ requests[t].pc = "fetch"
    /\ \E order \in Orders(nodes[Self]), resp \in Answers(nodes[Self]) :
           LET r == resolve_loop(order, resp, 1, Len(chain[Self]), NoChain)
           IN  requests' =
                   [requests EXCEPT ![t] =
                        IF r.raised # "" THEN Request("done")
                        ELSE [@ EXCEPT !.new_chain = r.new_chain,
                                       !.pc = "replace"]]
    /\ UNCHANGED <<chain, current_transactions, pool_list, replaced, aside>>

\* resolve_conflicts, lines 65-68
ResolveReplace(t) ==
    /\ requests[t].pc = "replace"
    /\ LET new_chain == requests[t].new_chain
       IN  IF Len(new_chain) > 0
           THEN /\ chain' = [chain EXCEPT ![Self] = new_chain]
                /\ replaced' = [replaced EXCEPT ![Self] = TRUE]
           ELSE UNCHANGED <<chain, replaced>>
    /\ requests' = [requests EXCEPT ![t] = Request("done")]
    /\ UNCHANGED <<current_transactions, pool_list, aside>>

NextThreads ==
    \/ RegisterPeer
    \/ \E t \in MineThreads :
           \/ MineLastBlock(t)
           \/ MineProofOfWork(t)
           \/ MineNewTransaction(t)
           \/ MineNewBlock(t)
           \/ MineClear(t)
           \/ MineAppend(t)
    \/ \E t \in SubmitThreads : SubmitAppend(t)
    \/ ResolveFetch(ResolveThread)
    \/ ResolveReplace(ResolveThread)

SpecThreads == InitThreads /\ [][NextThreads]_vars

\* ------------------------------------------------- the proof search alone
LastProofs == 0..MaxLastProof

\* proof_of_work(last_proof) has been called and has run line 122
InitProof ==
    \E last_proof \in LastProofs :
        /\ Constructed([n \in Nodes |-> 0])
        /\ requests = [t \in {Self} |->
                           [Request("while") EXCEPT !.last_proof = last_proof,
                                                    !.proof = 0]]
        /\ pool_list = 0

\* line 123 finds the candidate invalid and line 124 takes the next one
ProofIncrement(t) ==
    /\ requests[t].pc = "while"
    /\ ~valid_proof(requests[t].last_proof, requests[t].proof)
    /\ requests[t].proof < MaxProof
    /\ requests' = [requests EXCEPT ![t].proof = NextCandidate(@)]
    /\ UNCHANGED <<chain, current_transactions, pool_list, replaced, aside>>

\* line 123 finds the candidate valid and line 125 returns it
ProofReturn(t) ==
    /\ requests[t].pc = "while"
    /\ valid_proof(requests[t].last_proof, requests[t].proof)
    /\ requests' = [requests EXCEPT ![t].pc = "returned"]
    /\ UNCHANGED <<chain, current_transactions, pool_list, replaced, aside>>

NextProof == \E t \in DOMAIN requests : ProofIncrement(t) \/ ProofReturn(t)

SpecProof == InitProof /\ [][NextProof]_vars

\* ------------------------------------------------- what the claims speak of
Range(s) == {s[i] : i \in DOMAIN s}

\* the two conditions of the validator on a block and its predecessor
PairOk(previous, block) ==
    /\ block.previous_hash = hash(previous)
    /\ valid_proof(previous.proof, block.proof)

\* every adjacent pair of ch satisfies both conditions
AllPairsOk(ch) == \A i \in 2..Len(ch) : PairOk(ch[i - 1], ch[i])

\* ch starts at a genesis block and every later block is sealed as mine
\* seals it
SealedAsMine(ch) ==
    /\ Len(ch) >= 1
    /\ ch[1] \in {Genesis(t)[1] : t \in Times}
    /\ \A i \in 2..Len(ch) :
           /\ ch[i].proof = proof_of_work(ch[i - 1].proof)
           /\ ch[i].previous_hash = hash(ch[i - 1])

\* C1: every chain that grew from a fresh ledger by blocks sealed as mine
\* seals them (proof found from the previous proof, previous_hash the digest
\* of the previous block) passes valid_chain, whatever its length.
C1_MinedChainPassesValidation ==
    \A n \in Nodes :
        SealedAsMine(chain[n]) => valid_chain(chain[n]) = Return(TRUE)

\* C2: valid_chain returns, and returns true exactly when every adjacent
\* pair of the chain has the right previous_hash and a valid proof.
C2_ValidChainIffAllPairsOk ==
    \A n \in Nodes : valid_chain(chain[n]) = Return(AllPairsOk(chain[n]))

TamperProofs == {0, 7}
TamperHashes == {PyInt(GenesisPreviousHash), JunkStr}

\* C3: in a chain of two or more blocks whose pairs are all right, changing
\* the proof or the previous_hash of one block, any block, makes valid_chain
\* return false.
C3_TamperingIsDetected ==
    \A n \in Nodes :
        (Len(chain[n]) >= 2 /\ AllPairsOk(chain[n])) =>
            \A i \in DOMAIN chain[n] :
                /\ \A proof \in TamperProofs \ {chain[n][i].proof} :
                       valid_chain(WithProof(chain[n], i, proof)) = Return(FALSE)
                /\ \A h \in TamperHashes \ {chain[n][i].previous_hash} :
                       valid_chain(WithPreviousHash(chain[n], i, h)) = Return(FALSE)

\* a step is a call of resolve_conflicts by Self
ResolveCall == lastCall'.op = "resolve_conflicts" /\ lastCall'.node = Self

\* the chains of the answers that are successful, right in every pair, as
\* long as reported and strictly longer than ch
ValidLonger(ans, ch) ==
    {a.chain : a \in {b \in Range(ans) :
                        /\ b.status = HttpOk
                        /\ b.length = Len(b.chain)
                        /\ Len(b.chain) > Len(ch)
                        /\ AllPairsOk(b.chain)}}

Longest(chains) == {c \in chains : \A d \in chains : Len(d) <= Len(c)}

\* C4: when some peer answers with a valid chain strictly longer than the
\* local one, resolve_conflicts returns true and the local chain becomes the
\* longest such chain.
C4_LongestValidChainAdopted ==
    [][(ResolveCall /\ ValidLonger(answers', chain[Self]) # {}) =>
           /\ lastCall'.raised = ""
           /\ lastCall'.retBool
           /\ chain'[Self] \in Longest(ValidLonger(answers', chain[Self]))]_vars

\* C5: resolve_conflicts adopts a chain only from a successful answer whose
\* reported length is greater than the local length; when every peer reports
\* a length that is not greater, the chain is untouched and the result false.
C5_NoAdoptionUnlessLonger ==
    [][ResolveCall =>
           /\ chain'[Self] # chain[Self] =>
                  \E a \in Range(answers') :
                      /\ a.status = HttpOk
                      /\ a.length > Len(chain[Self])
                      /\ a.chain = chain'[Self]
           /\ (\A a \in Range(answers') :
                   a.status = HttpOk /\ a.length <= Len(chain[Self])) =>
                  /\ chain' = chain
                  /\ lastCall'.raised = ""
                  /\ ~lastCall'.retBool]_vars

\* two peers answered with lengths not above the local one, one of them with
\* the local length, and the chain of two blocks stayed
C5_Witness ==
    /\ lastCall.op = "resolve_conflicts"
    /\ lastCall.raised = ""
    /\ ~lastCall.retBool
    /\ Len(answers) = 2
    /\ Len(chain[Self]) = 2
    /\ \A a \in Range(answers) : a.status = HttpOk /\ a.length <= 2
    /\ \E a \in Range(answers) : a.length = 2
    /\ \E a \in Range(answers) : a.length = 1

\* C6: with two peers, one failing (unreachable or not answering 200) and
\* one answering a valid longer chain, resolve_conflicts adopts that chain
\* and returns true, in either visiting order.
C6_FailingPeerIsSkipped ==
    [][(/\ ResolveCall
        /\ Len(answers') = 2
        /\ \E i \in 1..2 : answers'[i].status # HttpOk
        /\ ValidLonger(answers', chain[Self]) # {}) =>
           /\ lastCall'.raised = ""
           /\ lastCall'.retBool
           /\ chain'[Self] \in ValidLonger(answers', chain[Self])]_vars

\* an answer that is a candidate by its length and wrong in some pair
InvalidCandidate(a, ch) ==
    /\ a.status = HttpOk
    /\ a.length > Len(ch)
    /\ ~AllPairsOk(a.chain)

\* C7: the chain resolve_conflicts leaves is right in every pair, and an
\* invalid candidate among the answers does not abort the resolution.
C7_InvalidCandidateRejected ==
    [][ResolveCall =>
           /\ AllPairsOk(chain'[Self])
           /\ (\E a \in Range(answers') : InvalidCandidate(a, chain[Self])) =>
                  lastCall'.raised = ""]_vars

\* the lengths of the chains in chains are pairwise different
DistinctLengths(chains) ==
    \A a, b \in DOMAIN chains : a # b => Len(chains[a]) # Len(chains[b])

LongestOf(chains) ==
    chains[CHOOSE a \in DOMAIN chains :
               \A b \in DOMAIN chains : Len(chains[b]) <= Len(chains[a])]

\* C8: in a full mesh, when the nodes held chains of different lengths as
\* mining stopped and every node has since run resolve_conflicts, all nodes
\* hold the longest of those chains.
C8_NetworkConverges ==
    (round.done = Nodes /\ FullMesh /\ DistinctLengths(round.start)) =>
        \A n \in Nodes : chain[n] = LongestOf(round.start)

\* a step is a call of new_block by Self, directly or by mine
SealCall == lastCall'.op \in {"new_block", "mine"} /\ lastCall'.node = Self

SubmittedTxs(n) == [i \in DOMAIN submitted[n] |-> submitted[n][i].tx]

\* C9: a new_block call after n >= 0 new_transaction calls appends one block
\* holding exactly the n submitted transactions in submission order, and
\* leaves the pool empty.
C9_SealDrainsPool ==
    [][(lastCall'.op = "new_block" /\ lastCall'.node = Self) =>
           /\ Len(chain'[Self]) = Len(chain[Self]) + 1
           /\ Last(chain'[Self]).transactions = SubmittedTxs(Self)
           /\ current_transactions'[Self] = <<>>]_vars

\* a block sealed by new_block holds two different transactions, and the
\* pool is empty
C9_Witness ==
    /\ lastCall.op = "new_block"
    /\ current_transactions[Self] = <<>>
    /\ Len(Last(chain[Self]).transactions) = 2
    /\ Last(chain[Self]).transactions[1] # Last(chain[Self]).transactions[2]

C11_MineAppendsOneBlock ==
    [][(lastCall'.op = "mine" /\ lastCall'.node = Self) =>
           LET old == chain[Self]
               block == Last(chain'[Self])
           IN  /\ chain'[Self] = Append(old, block)
               /\ block.index = Len(old) + 1
               /\ block.previous_hash = hash(Last(old))
               /\ valid_proof(Last(old).proof, block.proof)
               /\ block.transactions =
                      Append(current_transactions[Self], Reward(Self))
               /\ current_transactions'[Self] = <<>>]_vars

\* mine sealed a second block holding two submitted transactions and then
\* the reward
C11_Witness ==
    /\ lastCall.op = "mine"
    /\ Len(chain[Self]) = 2
    /\ Len(Last(chain[Self]).transactions) = 3
    /\ Last(chain[Self]).transactions[3] = Reward(Self)
    /\ current_transactions[Self] = <<>>

\* C12: in every reachable state the chain of a node is non-empty and every
\* block's index is its 1-based position in the chain.
C12_IndexIsPosition ==
    \A n \in Nodes :
        /\ Len(chain[n]) >= 1
        /\ \A i \in DOMAIN chain[n] : chain[n][i].index = i

\* s is a prefix of t, element for element
IsPrefix(s, t) == Len(s) <= Len(t) /\ SubSeq(t, 1, Len(s)) = s

\* a step is a call of resolve_conflicts by Self that returned True
ResolveReturnedTrue ==
    lastCall'.op = "resolve_conflicts" /\ lastCall'.node = Self /\ lastCall'.retBool

\* C13: every step other than a resolve_conflicts that returns True
\* (new_transaction, new_block, mine, register_nodes, a resolve_conflicts
\* that returns False or raises) leaves the old chain as a prefix of the new
\* one, every block unchanged in every field.
C13_AppendOnlyOutsideReplacement ==
    [][~ResolveReturnedTrue => IsPrefix(chain[Self], chain'[Self])]_vars

\* resolve_conflicts asked a peer, returned False, and the chain of two
\* blocks with its submitted transaction is in place
C13_Witness ==
    /\ lastCall.op = "resolve_conflicts"
    /\ lastCall.raised = ""
    /\ ~lastCall.retBool
    /\ nodes[Self] # {}
    /\ Len(chain[Self]) = 2
    /\ Len(chain[Self][2].transactions) >= 1

\* the state is the one __init__ leaves: nothing has been called yet
Fresh == lastCall.op = "init"

\* C14: a freshly constructed Blockchain has exactly one block, with index
\* 1, proof 100, the sentinel previous_hash 1 and no transactions; its pool
\* and its peer set are empty.
C14_FreshLedger ==
    Fresh =>
        \A n \in Nodes :
            /\ Len(chain[n]) = 1
            /\ chain[n][1].index = 1
            /\ chain[n][1].proof = GenesisProof
            /\ chain[n][1].previous_hash = PyInt(GenesisPreviousHash)
            /\ chain[n][1].transactions = <<>>
            /\ current_transactions[n] = <<>>
            /\ nodes[n] = {}

\* the state right after construction, the genesis block stamped by the
\* clock
C14_Witness ==
    /\ Fresh
    /\ Len(chain[Self]) = 1
    /\ chain[Self][1].timestamp \in Times

\* C16: whenever resolve_conflicts returns True the new chain has strictly
\* more blocks than the chain had before the call, whatever the peers
\* answered.
C16_ResolveNeverShortens ==
    [][(ResolveCall /\ lastCall'.retBool) =>
           Len(chain'[Self]) > Len(chain[Self])]_vars

\* C17: new_block stores the previous_hash it is given, whatever the value,
\* and the digest of the last block only when the argument is omitted.
C17_SuppliedPreviousHashStored ==
    \A proof \in SealProofs, previous_hash \in PreviousHashArgs,
       now \in TimesAfter(chain[Self]) :
        new_block(chain[Self], current_transactions[Self], proof,
                  previous_hash, now).block.previous_hash =
            IF previous_hash = PyNone THEN hash(Last(chain[Self]))
            ELSE previous_hash

\* C15: the proof search returns the smallest non-negative p for which
\* valid_proof(last_proof, p) holds: while it runs no smaller candidate is
\* valid, what it returns is valid and is what proof_of_work gives, and the
\* chain and the pool stay as construction left them.
C15_SmallestValidProof ==
    \A t \in DOMAIN requests :
        LET last_proof == requests[t].last_proof
            proof == requests[t].proof
        IN  /\ requests[t].pc \in {"while", "returned"} =>
                   \A p \in 0..(proof - 1) : ~valid_proof(last_proof, p)
            /\ requests[t].pc = "returned" =>
                   /\ valid_proof(last_proof, proof)
                   /\ proof_of_work(last_proof) = proof
                   /\ chain[Self] \in {Genesis(now) : now \in Times}
                   /\ current_transactions[Self] = <<>>

\* the search from the proof of the genesis block returned after rejecting
\* at least one candidate
C15_Witness ==
    \E t \in DOMAIN requests :
        /\ requests[t].pc = "returned"
        /\ requests[t].last_proof = GenesisProof
        /\ requests[t].proof > 0

\* the request of thread t takes the step
Steps(t) == requests'[t].pc # requests[t].pc

\* C18: a mine request writes neither the chain nor the pool before its
\* proof search has returned, so a search given up leaves the ledger as the
\* other requests made it; the reward is submitted with the proof found, and
\* the next statement of the request is the sealing.
C18_NoWriteBeforeProof ==
    [][\A t \in MineThreads :
           Steps(t) =>
               /\ requests[t].proof = NoProof =>
                      UNCHANGED <<chain, current_transactions, pool_list>>
               /\ requests[t].pc = "new_transaction" =>
                      /\ valid_proof(requests[t].last_proof, requests[t].proof)
                      /\ requests'[t].pc = "new_block"]_vars

\* a mine request is at its proof search while another request has sealed a
\* block and a transaction has been submitted since
C18_Witness ==
    \E t \in MineThreads :
        /\ requests[t].pc = "proof_of_work"
        /\ Len(chain[Self]) = 2
        /\ current_transactions[Self] # <<>>

\* C19: however the steps of two mine requests, or of a mine and a
\* resolve_conflicts request, interleave on one node, every block after the
\* first has as previous_hash the digest of the block before it.
C19_InterleavedLinkage ==
    \A i \in 2..Len(chain[Self]) :
        chain[Self][i].previous_hash = hash(chain[Self][i - 1])

\* the submit and mine requests have all returned
Quiescent ==
    \A t \in MineThreads \cup SubmitThreads : requests[t].pc = "done"

\* the places that hold tx: the pool, and each block whose transactions
\* have it
Places(tx) ==
    (IF tx \in Range(current_transactions[Self]) THEN 1 ELSE 0)
    + Cardinality({i \in DOMAIN chain[Self] :
                      tx \in Range(chain[Self][i].transactions)})

\* C20: however the steps of new_transaction and mine requests interleave
\* on one node whose chain is not replaced, once they have returned every
\* submitted transaction is in exactly one place: the pool, or one block.
C20_SubmittedInOnePlace ==
    (Quiescent /\ ~replaced[Self]) =>
        \A t \in SubmitThreads : Places(TxOf(t)) = 1

====
